---- MODULE Spec2Model ----
(***************************************************************************)
(* ICD-LM: the candidate-scoring engine (get_info_score, get_cider_score,  *)
(* caption_postprocess / vqa_postprocess in utils.py) and the random       *)
(* candidate sampler (RandSampler.sample).                                 *)
(*                                                                         *)
(* Text is a sequence of characters (one-character strings; the tokens of *)
(* a rendered prompt count as characters).  Python's None is the value     *)
(* PyNone.  The model interface (lvlm_interface) and the metric            *)
(* (compute_cider) are collaborators that are not part of the source       *)
(* files; they are deterministic stubs that give different sequences       *)
(* different values, so that a misaligned score vector is visible.         *)
(***************************************************************************)
EXTENDS Integers, Sequences, FiniteSets, TLC

(* ---------------------------- bounds ---------------------------------- *)
\* candidate keys are drawn from 0 .. MaxCand-1
MaxCand == 3
\* image ids of candidates are drawn from 0 .. NumImages-1
NumImages == 2
\* number of already chosen demonstrations before the query
MaxShots == 1
\* batch sizes are drawn from 1 .. MaxBatch
MaxBatch == 3
\* len(train_ds) is drawn from 0 .. MaxTrain
MaxTrain == 3
\* anchor_set holds at most MaxAnchors anchors
MaxAnchors == 2
\* the text handed to the post-processing functions has at most MaxText tokens
MaxText == 3

(* ---------------------------- values ---------------------------------- *)
PyNone == <<"<None>">>
NoSplit == "<None>"

Min(a, b) == IF a < b THEN a ELSE b

\* the examples of a chosen sequence: their idx is above every candidate key
demo == [idx |-> MaxCand, image_id |-> NumImages]
query_example == [idx |-> MaxCand + 1, image_id |-> NumImages + 1]

\* chosen sequences: at most MaxShots demonstrations, then the query
ChosenSeqs == { [i \in 1..n |-> demo] \o <<query_example>> : n \in 0..MaxShots }

\* candidate sets: key -> Example, the key being the example's idx
CandidateSets ==
    UNION { { [k \in K |-> [idx |-> k, image_id |-> img[k]]] :
                img \in [K -> 0..(NumImages - 1)] } :
            K \in SUBSET (0..(MaxCand - 1)) }

ConstructOrders == {"left", "right", "middle"}
ModelNames == { <<"open", "flamingo">>, <<"idefics", "9b">>, <<"blip">>,
                <<"idefics", "flamingo">> }
SplitTokens == {NoSplit, "Output"}

(* ------------------------- list helpers ------------------------------- *)
RECURSIVE Sorted(_)
\* sorted(list(keys)): ascending
Sorted(K) ==
    IF K = {} THEN <<>>
    ELSE LET m == CHOOSE x \in K : \A y \in K : x <= y
         IN <<m>> \o Sorted(K \ {m})

RECURSIVE Concat(_)
\* torch.cat / str concatenation of a list of lists
Concat(ss) == IF ss = <<>> THEN <<>> ELSE Head(ss) \o Concat(Tail(ss))

Contains(s, x) == \E i \in 1..Len(s) : s[i] = x

\* sep occurs in text at position i
OccursAt(text, sep, i) ==
    /\ i + Len(sep) - 1 <= Len(text)
    /\ \A j \in 1..Len(sep) : text[i + j - 1] = sep[j]

\* text.split(sep, 1)[0]: everything before the first occurrence of sep
SplitFirst(text, sep) ==
    LET at == { i \in 1..Len(text) : OccursAt(text, sep, i) }
    IN IF at = {} THEN text
       ELSE SubSeq(text, 1, (CHOOSE i \in at : \A j \in at : i <= j) - 1)

\* text.replace(tok, ""): every occurrence removed
Remove(text, tok) == SelectSeq(text, LAMBDA t : t # tok)

\* s[:-1]
ButLast(s) == SubSeq(s, 1, Len(s) - 1)
\* s[-1]
Last(s) == s[Len(s)]

RECURSIVE SumSeq(_)
SumSeq(s) == IF s = <<>> THEN 0 ELSE Head(s) + SumSeq(Tail(s))

\* the literals "Output" and "Caption" of caption_postprocess
OutputMarker == <<"O", "u", "t", "p", "u", "t">>
CaptionMarker == <<"C", "a", "p", "t", "i", "o", "n">>

(* ------------------- model interface (collaborator) ------------------- *)
\* gen_ice_prompt(example, add_image_token=True)
gen_ice_prompt(ex) == <<"<image>", "Output", ToString(ex.idx), "<eoc>">>

\* concat_prompt(prefix, ...): the rendered text of a sequence prefix
concat_prompt(seq) == Concat([i \in 1..Len(seq) |-> gen_ice_prompt(seq[i])])

\* get_input_token_num(text)
get_input_token_num(text) == Len(text)

\* get_cond_prob for one rendered sequence with its mask length
get_cond_prob(seq, mask_length) ==
    SumSeq([i \in 1..Len(seq) |-> i * (seq[i].idx + 1)]) + mask_length

\* generate + batch_decode for one rendered sequence: the decoded new text
generate(seq) ==
    <<"\"">> \o [i \in 1..Len(seq) |-> ToString(seq[i].idx)]
             \o <<"\n">> \o CaptionMarker \o OutputMarker \o <<"\"">>

(* --------------------------- metric (collaborator) -------------------- *)
\* the text of every example idx
IdxText == [n \in 0..(MaxCand + 1) |-> ToString(n)]

WordVal(tok) ==
    IF \E n \in DOMAIN IdxText : IdxText[n] = tok
    THEN (CHOOSE n \in DOMAIN IdxText : IdxText[n] = tok) + 1
    ELSE 0

\* the CIDEr value of one caption for one image within a corpus of images
CiderVal(image_id, caption, corpus) ==
    IF caption = PyNone THEN 0
    ELSE 100 * image_id + 10 * Cardinality(corpus)
         + SumSeq([i \in 1..Len(caption) |-> i * WordVal(caption[i])])

HasDuplicateImage(preds) ==
    \E i, j \in 1..Len(preds) : i # j /\ preds[i].image_id = preds[j].image_id

Degenerate(preds) ==
    preds = <<>> \/ \E i \in 1..Len(preds) : preds[i].caption = PyNone

\* compute_cider(pred_coco, train_ann_path, reduce_cider=False).  What the
\* metric does with two predictions for one image (dup: raise, or keep the
\* first / the last) and with an empty list or a None caption (strict:
\* raise or accept) is not fixed by the repository: every outcome is kept.
compute_cider(preds, dup, strict) ==
    LET corpus == { preds[i].image_id : i \in 1..Len(preds) }
        pick(img) ==
            LET at == { i \in 1..Len(preds) : preds[i].image_id = img }
                i  == IF dup = "last"
                      THEN CHOOSE x \in at : \A y \in at : y <= x
                      ELSE CHOOSE x \in at : \A y \in at : x <= y
            IN preds[i].caption
    IN IF (strict /\ Degenerate(preds)) \/ (dup = "raise" /\ HasDuplicateImage(preds))
       THEN [ok |-> FALSE, info |-> [img \in {} |-> 0]]
       ELSE [ok |-> TRUE,
             info |-> [img \in corpus |-> CiderVal(img, pick(img), corpus)]]

(* ------------------------- post-processing ---------------------------- *)
\* 'flamingo' in model_name
InName(family, model_name) == Contains(model_name, family)

\* text.replace(tok, "", 1): the first occurrence removed
RemoveFirst(text, tok) ==
    IF Contains(text, tok)
    THEN LET i == CHOOSE x \in 1..Len(text) :
                     text[x] = tok /\ \A y \in 1..(x - 1) : text[y] # tok
         IN SubSeq(text, 1, i - 1) \o SubSeq(text, i + 1, Len(text))
    ELSE text

caption_postprocess_FirstQuoteOnly(text, model_name) ==
    IF InName("flamingo", model_name)
    THEN RemoveFirst(SplitFirst(text, OutputMarker), "\"")
    ELSE IF InName("idefics", model_name)
    THEN Remove(RemoveFirst(SplitFirst(text, CaptionMarker), "\""), "\n")
    ELSE PyNone

\* utils.caption_postprocess
caption_postprocess(text, model_name) ==
    IF InName("flamingo", model_name)
    THEN Remove(SplitFirst(text, OutputMarker), "\"")
    ELSE IF InName("idefics", model_name)
    THEN Remove(Remove(SplitFirst(text, CaptionMarker), "\""), "\n")
    ELSE PyNone

(* ------------------------------ state --------------------------------- *)
VARIABLES
    fn,                    \* which scoring function is being called
    choosed_icd_seq_list, candidate_set, batch_size, split_token,
    construct_order, model_name,
    pc, err,
    cond_prob,             \* get_info_score: baseline P(y|x)
    origin_cider_score,    \* get_cider_score: baseline CIDEr
    pos,                   \* how many of cand_idx the batch loop has consumed
    info_score_list,       \* get_info_score: one score list per batch
    output_dict,           \* get_cider_score: insertion-ordered dict, by idx
    result,                \* the returned score vector
    rendered,              \* every sequence handed to transfer_prompts
    cider_calls,           \* the pred_coco of every compute_cider call
    gen_calls,             \* number of interface.generate calls so far
    metric_used            \* how the metric treated the candidates' pass

scoreVars == <<fn, choosed_icd_seq_list, candidate_set, batch_size, split_token,
               construct_order, model_name, pc, err, cond_prob,
               origin_cider_score, pos, info_score_list, output_dict, result,
               rendered, cider_calls, gen_calls, metric_used>>

inputVars == <<fn, choosed_icd_seq_list, candidate_set, batch_size, split_token,
               construct_order, model_name>>

\* the arguments other than the chosen sequence
otherInputVars == <<fn, candidate_set, batch_size, split_token, construct_order,
                    model_name>>

\* RandSampler.sample
VARIABLES
    anchor_set, train_len, candidate_num,
    spc,
    s_pos,                 \* how many anchors of anchor_set the for loop has done
    random_candidate_set,  \* the current draw
    candidate_set_idx      \* the dict being built: anchor -> list

samplerVars == <<anchor_set, train_len, candidate_num, spc, s_pos,
                 random_candidate_set, candidate_set_idx>>

\* caption_postprocess / vqa_postprocess called on their own
VARIABLES p_fn, p_text, p_model_name, ppc, p_out

postVars == <<p_fn, p_text, p_model_name, ppc, p_out>>

\* src/utils.py of the package: cast_type, get_autocast, encode_dataset
VARIABLES
    u_fn, precision, pool_method,
    cache_exists,          \* os.path.exists(dataset_embedding_cache_path)
    coco_dataset_len,      \* len(coco_dataset)
    e_batch_size,
    upc,
    u_err,                 \* the exception raised: its type and the values its
                           \* message lists as accepted
    u_work,                \* the work done so far, in order
    padding_side,          \* tokenizer.padding_side
    e_pos,                 \* how many examples the loop has embedded
    u_out

utilVars == <<u_fn, precision, pool_method, cache_exists, coco_dataset_len,
              e_batch_size, upc, u_err, u_work, padding_side, e_pos, u_out>>

\* data_split
VARIABLES
    generated_data,        \* key -> its 'id_list'
    id_type,               \* what the ids of the id sequences are: int or str
    train_ratio,           \* <<numerator, denominator>>
    dpc,
    d_pos,                 \* how many id sequences the two loops have placed
    train_data_list, val_data_list,
    d_err

splitVars == <<generated_data, id_type, train_ratio, dpc, d_pos,
               train_data_list, val_data_list, d_err>>

vars == <<scoreVars, samplerVars, postVars, utilVars, splitVars>>

\* cand_idx = sorted(list(candidate_set.keys()))
cand_idx == Sorted(DOMAIN candidate_set)

\* more_itertools.chunked(cand_idx, batch_size): the chunk starting after pos
chunked ==
    SubSeq(cand_idx, pos + 1, Min(pos + batch_size, Len(cand_idx)))

add_new_icd_seq_AfterQuery(new_icd) ==
    IF construct_order = "left"
    THEN <<new_icd>> \o choosed_icd_seq_list
    ELSE choosed_icd_seq_list \o <<new_icd>>

\* the augmented sequence for one candidate (lines 78-86 and 175-183)
add_new_icd_seq(new_icd) ==
    IF construct_order = "left"
    THEN <<new_icd>> \o choosed_icd_seq_list
    ELSE ButLast(choosed_icd_seq_list) \o <<new_icd>>
         \o <<Last(choosed_icd_seq_list)>>

\* query_mask_part = test_lang_x_input.split(split_token)[0] + split_token
query_mask_part ==
    SplitFirst(gen_ice_prompt(Last(choosed_icd_seq_list)), <<split_token>>)
        \o <<split_token>>

\* mask length of one sequence: tokens of its prefix plus the query mask part
mask_length_of(seq) ==
    get_input_token_num(concat_prompt(ButLast(seq)) \o query_mask_part)

ScoreInit ==
    /\ fn \in {"get_info_score", "get_cider_score"}
    /\ choosed_icd_seq_list \in ChosenSeqs
    /\ candidate_set \in CandidateSets
    /\ batch_size \in 1..MaxBatch
    /\ split_token \in SplitTokens
    /\ construct_order \in ConstructOrders
    /\ model_name \in ModelNames
    \* arguments a function does not take are fixed
    /\ fn = "get_info_score" => model_name = <<"open", "flamingo">>
    /\ fn = "get_cider_score" => split_token = NoSplit
    /\ pc = "start"
    /\ err = "none"
    /\ cond_prob = 0
    /\ origin_cider_score = 0
    /\ pos = 0
    /\ info_score_list = <<>>
    /\ output_dict = <<>>
    /\ result = <<>>
    /\ rendered = {}
    /\ cider_calls = <<>>
    /\ gen_calls = 0
    /\ metric_used = [dup |-> "raise", strict |-> TRUE]

ScoreIdle ==
    /\ fn = "none"
    /\ choosed_icd_seq_list = <<>>
    /\ candidate_set = <<>>
    /\ batch_size = 1
    /\ split_token = NoSplit
    /\ construct_order = "left"
    /\ model_name = <<>>
    /\ pc = "idle"
    /\ err = "none"
    /\ cond_prob = 0
    /\ origin_cider_score = 0
    /\ pos = 0
    /\ info_score_list = <<>>
    /\ output_dict = <<>>
    /\ result = <<>>
    /\ rendered = {}
    /\ cider_calls = <<>>
    /\ gen_calls = 0
    /\ metric_used = [dup |-> "raise", strict |-> TRUE]

Raise(e) == pc' = "raised" /\ err' = e

(* --------------------------- get_info_score --------------------------- *)
\* lines 47-69: the baseline P(y|x)
InfoBaseline ==
    /\ UNCHANGED <<samplerVars, postVars, utilVars, splitVars>>
    /\ fn = "get_info_score" /\ pc = "start"
    /\ rendered' = rendered \cup {choosed_icd_seq_list}
    /\ IF split_token = NoSplit
       THEN \* line 64: str + None
            /\ Raise("TypeError")
            /\ UNCHANGED cond_prob
       ELSE /\ cond_prob' = get_cond_prob(choosed_icd_seq_list,
                                          mask_length_of(choosed_icd_seq_list))
            /\ pc' = "loop"
            /\ UNCHANGED err
    /\ UNCHANGED <<inputVars, origin_cider_score, pos, info_score_list,
                   output_dict, result, cider_calls, gen_calls,
                   metric_used>>

choosed_icd_seq_list_InsertedInPlace(batch_data) ==
    IF construct_order = "left"
    THEN <<batch_data[Len(batch_data)]>> \o choosed_icd_seq_list
    ELSE ButLast(choosed_icd_seq_list) \o <<batch_data[Len(batch_data)]>>
         \o <<Last(choosed_icd_seq_list)>>

\* lines 78-86 and 175-183: [new_icd] + choosed_icd_seq_list and the slices
\* build new lists; the list passed in is what it was
choosed_icd_seq_list_after(batch_data) == choosed_icd_seq_list

\* lines 78-86 and 175-183: the augmented sequence of every batch item
add_new_icd_seq_list_of(batch_data) ==
    [i \in 1..Len(batch_data) |-> add_new_icd_seq(batch_data[i])]

\* lines 92-123: P(y|x, c) - P(y|x) for every item of a batch
sub_info_score_FlippedSign(batch_data) ==
    [i \in 1..Len(batch_data) |->
        cond_prob - get_cond_prob(add_new_icd_seq(batch_data[i]),
                                  mask_length_of(add_new_icd_seq(batch_data[i])))]

sub_info_score_of(batch_data) ==
    LET seqs == add_new_icd_seq_list_of(batch_data)
        new_cond_prob ==
            [i \in 1..Len(batch_data) |->
                get_cond_prob(seqs[i], mask_length_of(seqs[i]))]
    IN [i \in 1..Len(batch_data) |-> new_cond_prob[i] - cond_prob]

\* lines 74-124: one batch of the loop
InfoBatch ==
    /\ UNCHANGED <<samplerVars, postVars, utilVars, splitVars>>
    /\ fn = "get_info_score" /\ pc = "loop" /\ pos < Len(cand_idx)
    /\ LET batch == chunked
           batch_data == [i \in 1..Len(batch) |-> candidate_set[batch[i]]]
       IN IF construct_order \notin {"left", "right"}
          THEN /\ Raise("ValueError")
               /\ UNCHANGED <<choosed_icd_seq_list, pos, info_score_list, rendered>>
          ELSE LET add_new_icd_seq_list == add_new_icd_seq_list_of(batch_data)
               IN /\ rendered' = rendered \cup
                        { add_new_icd_seq_list[i] : i \in 1..Len(batch_data) }
                  /\ info_score_list' =
                        Append(info_score_list, sub_info_score_of(batch_data))
                  /\ choosed_icd_seq_list' = choosed_icd_seq_list_after(batch_data)
                  /\ pos' = pos + Len(batch)
                  /\ UNCHANGED <<pc, err>>
    /\ UNCHANGED <<otherInputVars, cond_prob, origin_cider_score, output_dict,
                   result, cider_calls, gen_calls,
                   metric_used>>

\* line 125: torch.cat(info_score_list), which rejects an empty list
InfoReturn ==
    /\ UNCHANGED <<samplerVars, postVars, utilVars, splitVars>>
    /\ fn = "get_info_score" /\ pc = "loop" /\ pos = Len(cand_idx)
    /\ IF info_score_list = <<>>
       THEN Raise("RuntimeError") /\ UNCHANGED result
       ELSE /\ result' = Concat(info_score_list)
            /\ pc' = "returned"
            /\ UNCHANGED err
    /\ UNCHANGED <<inputVars, cond_prob, origin_cider_score, pos,
                   info_score_list, output_dict, rendered, cider_calls, gen_calls,
                   metric_used>>

(* --------------------------- get_cider_score -------------------------- *)
\* output_dict[key] = value on an insertion-ordered dict
DictSet(d, key, value) ==
    IF \E i \in 1..Len(d) : d[i].idx = key
    THEN [i \in 1..Len(d) |-> IF d[i].idx = key THEN value ELSE d[i]]
    ELSE Append(d, value)

RECURSIVE DictSetAll(_, _)
DictSetAll(d, values) ==
    IF values = <<>> THEN d
    ELSE DictSetAll(DictSet(d, Head(values).idx, Head(values)), Tail(values))

\* lines 188-213: the output_dict entries of one batch
batch_entries_FirstGenerated(batch_data) ==
    [i \in 1..Len(batch_data) |->
        [idx |-> batch_data[i].idx,
         prediction |-> generate(add_new_icd_seq(batch_data[1])),
         image_id |-> batch_data[i].image_id]]

batch_entries(batch_data) ==
    LET seqs == add_new_icd_seq_list_of(batch_data)
        generated == [i \in 1..Len(batch_data) |-> generate(seqs[i])]
    IN [i \in 1..Len(batch_data) |->
           [idx |-> batch_data[i].idx,
            prediction |-> generated[i],
            image_id |-> batch_data[i].image_id]]

\* lines 139 and 210-213: output_dict lives across the batches
output_dict_ResetPerBatch(d, entries) == DictSetAll(<<>>, entries)

output_dict_after(d, entries) == DictSetAll(d, entries)

\* lines 139-170: the baseline generation and its CIDEr
CiderBaseline ==
    /\ UNCHANGED <<samplerVars, postVars, utilVars, splitVars>>
    /\ fn = "get_cider_score" /\ pc = "start"
    /\ rendered' = rendered \cup {choosed_icd_seq_list}
    /\ gen_calls' = gen_calls + 1
    /\ LET query == Last(choosed_icd_seq_list)
           pred_coco == << [image_id |-> query.image_id,
                            caption |-> generate(choosed_icd_seq_list)] >>
           score == compute_cider(pred_coco, "raise", TRUE)
       IN /\ cider_calls' = Append(cider_calls, pred_coco)
          /\ origin_cider_score' = score.info[query.image_id]
    /\ pc' = "loop"
    /\ UNCHANGED <<inputVars, err, cond_prob, pos, info_score_list,
                   output_dict, result, metric_used>>

\* lines 173-213: one batch of the loop
CiderBatch ==
    /\ UNCHANGED <<samplerVars, postVars, utilVars, splitVars>>
    /\ fn = "get_cider_score" /\ pc = "loop" /\ pos < Len(cand_idx)
    /\ LET batch == chunked
           batch_data == [i \in 1..Len(batch) |-> candidate_set[batch[i]]]
       IN IF construct_order \notin {"left", "right"}
          THEN /\ Raise("ValueError")
               /\ UNCHANGED <<choosed_icd_seq_list, pos, output_dict, rendered,
                              gen_calls>>
          ELSE LET add_new_icd_seq_list == add_new_icd_seq_list_of(batch_data)
               IN /\ rendered' = rendered \cup
                        { add_new_icd_seq_list[i] : i \in 1..Len(batch_data) }
                  /\ gen_calls' = gen_calls + 1
                  /\ output_dict' =
                        output_dict_after(output_dict, batch_entries(batch_data))
                  /\ choosed_icd_seq_list' = choosed_icd_seq_list_after(batch_data)
                  /\ pos' = pos + Len(batch)
                  /\ UNCHANGED <<pc, err>>
    /\ UNCHANGED <<otherInputVars, cond_prob, origin_cider_score,
                   info_score_list, result, cider_calls, metric_used>>

\* lines 215-224: the predictions of every candidate, post-processed
RECURSIVE pred_coco_of(_)
pred_coco_of(d) ==
    IF d = <<>> THEN <<>>
    ELSE << [image_id |-> Head(d).image_id,
             caption |-> caption_postprocess(Head(d).prediction, model_name)] >>
         \o pred_coco_of(Tail(d))

\* line 229: every candidate's image id is a key of cider_score_info
AllScored(cider_score_info) ==
    \A i \in 1..Len(cand_idx) :
        candidate_set[cand_idx[i]].image_id \in DOMAIN cider_score_info

\* lines 226-231: the score of every candidate, looked up by image id
cider_score_of(cider_score_info) ==
    [i \in 1..Len(cand_idx) |->
        cider_score_info[candidate_set[cand_idx[i]].image_id] - origin_cider_score]

\* lines 215-231: the single CIDEr pass over every prediction, and the return
CiderScore ==
    /\ UNCHANGED <<samplerVars, postVars, utilVars, splitVars>>
    /\ fn = "get_cider_score" /\ pc = "loop" /\ pos = Len(cand_idx)
    /\ LET pred_coco == pred_coco_of(output_dict) IN
         \* the metric's treatment is a choice only where it is met
         \E dup \in (IF HasDuplicateImage(pred_coco)
                     THEN {"raise", "first", "last"} ELSE {"raise"}),
            strict \in (IF Degenerate(pred_coco) THEN BOOLEAN ELSE {TRUE}) :
            /\ cider_calls' = Append(cider_calls, pred_coco)
            /\ metric_used' = [dup |-> dup, strict |-> strict]
            /\ LET score == compute_cider(pred_coco, dup, strict) IN
                  IF ~score.ok
                  THEN Raise("MetricError") /\ UNCHANGED result
                  ELSE IF ~AllScored(score.info)
                  THEN Raise("KeyError") /\ UNCHANGED result
                  ELSE /\ result' = cider_score_of(score.info)
                       /\ pc' = "returned"
                       /\ UNCHANGED err
    /\ UNCHANGED <<inputVars, cond_prob, origin_cider_score, pos,
                   info_score_list, output_dict, rendered, gen_calls>>

Next ==
    \/ InfoBaseline
    \/ InfoBatch
    \/ InfoReturn
    \/ CiderBaseline
    \/ CiderBatch
    \/ CiderScore

(* ------------------------- RandSampler.sample ------------------------- *)
Injective(s) == \A i, j \in 1..Len(s) : i # j => s[i] # s[j]

random_sample_WithReplacement(n, k) == [1..k -> 0..(n - 1)]

\* random.sample(range(0, n), k): every list of k distinct elements of
\* 0 .. n-1 is a possible draw (k > n raises ValueError instead)
random_sample(n, k) == { s \in [1..k -> 0..(n - 1)] : Injective(s) }

\* anchor lists over a dataset of n examples: indices of the dataset and one
\* index past its end, repeats allowed.  The loop treats every anchor alike,
\* so the lists are taken in ascending order.
AnchorSets(n) ==
    { a \in UNION { [1..m -> 0..n] : m \in 0..MaxAnchors } :
        \A i \in 1..(Len(a) - 1) : a[i] <= a[i + 1] }

SamplerInit ==
    /\ train_len \in 0..MaxTrain
    /\ candidate_num \in 0..(train_len + 1)
    /\ anchor_set \in AnchorSets(train_len)
    /\ spc = "for"
    /\ s_pos = 0
    /\ random_candidate_set = <<>>
    /\ candidate_set_idx = <<>>

SamplerIdle ==
    /\ train_len = 0
    /\ candidate_num = 0
    /\ anchor_set = <<>>
    /\ spc = "idle"
    /\ s_pos = 0
    /\ random_candidate_set = <<>>
    /\ candidate_set_idx = <<>>

s_idx == anchor_set[s_pos + 1]

anchor_in_draw_FirstOnly ==
    random_candidate_set # <<>> /\ random_candidate_set[1] = s_idx

\* line 20: s_idx in random_candidate_set
anchor_in_draw == Contains(random_candidate_set, s_idx)

\* lines 16-19: the next anchor and its first draw
SampleDraw ==
    /\ UNCHANGED <<scoreVars, postVars, utilVars, splitVars>>
    /\ spc = "for" /\ s_pos < Len(anchor_set)
    /\ IF candidate_num > train_len
       THEN spc' = "raised" /\ UNCHANGED random_candidate_set
       ELSE /\ random_candidate_set' \in random_sample(train_len, candidate_num)
            /\ spc' = "while"
    /\ UNCHANGED <<anchor_set, train_len, candidate_num, s_pos, candidate_set_idx>>

\* lines 20-23: the anchor is in the draw, so draw again
SampleRedraw ==
    /\ UNCHANGED <<scoreVars, postVars, utilVars, splitVars>>
    /\ spc = "while" /\ anchor_in_draw
    /\ random_candidate_set' \in random_sample(train_len, candidate_num)
    /\ UNCHANGED <<anchor_set, train_len, candidate_num, spc, s_pos,
                   candidate_set_idx>>

\* line 24: the anchor is not in the draw, so store it
SampleStore ==
    /\ UNCHANGED <<scoreVars, postVars, utilVars, splitVars>>
    /\ spc = "while" /\ ~anchor_in_draw
    /\ candidate_set_idx' =
          [a \in DOMAIN candidate_set_idx \cup {s_idx} |->
              IF a = s_idx THEN random_candidate_set ELSE candidate_set_idx[a]]
    /\ s_pos' = s_pos + 1
    /\ spc' = "for"
    /\ UNCHANGED <<anchor_set, train_len, candidate_num, random_candidate_set>>

\* line 25
SampleReturn ==
    /\ UNCHANGED <<scoreVars, postVars, utilVars, splitVars>>
    /\ spc = "for" /\ s_pos = Len(anchor_set)
    /\ spc' = "returned"
    /\ UNCHANGED <<anchor_set, train_len, candidate_num, s_pos,
                   random_candidate_set, candidate_set_idx>>

SamplerNext ==
    \/ SampleDraw
    \/ SampleRedraw
    \/ SampleStore
    \/ SampleReturn

\* a redraw that comes out without the anchor
SampleRedrawClean == SampleRedraw /\ ~Contains(random_candidate_set', s_idx)

(* ---------------------- post-processing on its own -------------------- *)
\* the pieces texts are made of: a letter, a quote, a newline, the two
\* markers and the halves of each
TextTokens ==
    { <<"a">>, <<"\"">>, <<"\n">>, OutputMarker, CaptionMarker,
      <<"O", "u", "t">>, <<"p", "u", "t">>, <<"C", "a", "p">>, <<"t", "i", "o", "n">> }

\* 'A dog.Output extra' and '"A cat."Caption: junk'
ExampleDog ==
    <<"A", " ", "d", "o", "g", ".">> \o OutputMarker \o <<" ", "e", "x", "t", "r", "a">>
ExampleCat ==
    <<"\"", "A", " ", "c", "a", "t", ".", "\"">> \o CaptionMarker
        \o <<":", " ", "j", "u", "n", "k">>

\* every text of at most MaxText pieces, and the two examples
Texts ==
    { Concat(ps) : ps \in UNION { [1..n -> TextTokens] : n \in 0..MaxText } }
        \cup {ExampleDog, ExampleCat}

\* utils.vqa_postprocess.  postprocess_vqa_generation is not part of the
\* source files: its result is kept as the list of operations applied.
vqa_postprocess(text, name) ==
    IF InName("flamingo", name)
    THEN <<"postprocess_vqa_generation">>
    ELSE IF InName("idefics", name)
    THEN <<"postprocess_vqa_generation", "replace">>
    ELSE PyNone

PostInit ==
    /\ p_fn \in {"caption_postprocess", "vqa_postprocess"}
    /\ p_text \in Texts
    /\ p_model_name \in ModelNames
    /\ ppc = "call"
    /\ p_out = <<>>

PostIdle ==
    /\ p_fn = "none"
    /\ p_text = <<>>
    /\ p_model_name = <<>>
    /\ ppc = "idle"
    /\ p_out = <<>>

\* the call returns whatever the function body evaluates to
PostCall ==
    /\ UNCHANGED <<scoreVars, samplerVars, utilVars, splitVars>>
    /\ ppc = "call"
    /\ p_out' = IF p_fn = "caption_postprocess"
                THEN caption_postprocess(p_text, p_model_name)
                ELSE vqa_postprocess(p_text, p_model_name)
    /\ ppc' = "returned"
    /\ UNCHANGED <<p_fn, p_text, p_model_name>>

(* -------------------- precision and pooling utilities ------------------ *)
MaxDataset == 2

NoError == [type |-> "none", listed |-> {}]

\* the strings a caller may pass; "fp64" and "max" are not handled anywhere
PrecisionStrings == {"fp16", "bf16", "fp32", "fp64"}
PoolMethodStrings == {"first", "last", "mean", "max"}

precision_list == {"fp16", "bf16", "fp32"}

\* cast_type: [ok, val] with the dtype, or the ValueError and what it lists
cast_type(p) ==
    IF p = "fp16" THEN [ok |-> TRUE, val |-> "float16"]
    ELSE IF p = "bf16" THEN [ok |-> TRUE, val |-> "bfloat16"]
    ELSE IF p = "fp32" THEN [ok |-> TRUE, val |-> "float32"]
    ELSE [ok |-> FALSE,
          val |-> [type |-> "ValueError", listed |-> precision_list]]

\* get_autocast: every other string gets contextlib.suppress
get_autocast(p) ==
    IF p = "fp16" THEN "autocast_float16"
    ELSE IF p = "bf16" THEN "autocast_bfloat16"
    ELSE "suppress"

\* the padding side after the pool_method test that follows init_flamingo
padding_side_of(pm) ==
    IF pm = "first" THEN "right"
    ELSE IF pm = "last" THEN "left"
    ELSE "left"

\* the pooling of one batch: the features kept, or the ValueError, whose
\* message names the value got and lists nothing
pooled(pm) ==
    IF pm = "last" THEN [ok |-> TRUE, val |-> "last_token"]
    ELSE IF pm = "mean" THEN [ok |-> TRUE, val |-> "masked_mean"]
    ELSE IF pm = "first" THEN [ok |-> TRUE, val |-> "first_token"]
    ELSE [ok |-> FALSE, val |-> [type |-> "ValueError", listed |-> {}]]

UtilInit ==
    /\ u_fn \in {"cast_type", "get_autocast", "encode_dataset"}
    /\ precision \in PrecisionStrings
    /\ pool_method \in PoolMethodStrings
    /\ cache_exists \in BOOLEAN
    /\ coco_dataset_len \in 0..MaxDataset
    /\ e_batch_size \in 1..MaxBatch
    /\ upc = "call"
    /\ u_err = NoError
    /\ u_work = <<>>
    /\ padding_side = "unset"
    /\ e_pos = 0
    /\ u_out = "<unset>"

UtilIdle ==
    /\ u_fn = "none"
    /\ precision = "fp32"
    /\ pool_method = "mean"
    /\ cache_exists = FALSE
    /\ coco_dataset_len = 0
    /\ e_batch_size = 1
    /\ upc = "idle"
    /\ u_err = NoError
    /\ u_work = <<>>
    /\ padding_side = "unset"
    /\ e_pos = 0
    /\ u_out = "<unset>"

utilInputVars == <<u_fn, precision, pool_method, cache_exists, coco_dataset_len,
                   e_batch_size>>

\* cast_type(precision) called on its own
CastTypeCall ==
    /\ UNCHANGED <<scoreVars, samplerVars, postVars, splitVars>>
    /\ upc = "call" /\ u_fn = "cast_type"
    /\ LET r == cast_type(precision) IN
          IF r.ok
          THEN upc' = "returned" /\ u_out' = r.val /\ UNCHANGED u_err
          ELSE upc' = "raised" /\ u_err' = r.val /\ UNCHANGED u_out
    /\ UNCHANGED <<utilInputVars, u_work, padding_side, e_pos>>

\* get_autocast(precision) called on its own
GetAutocastCall ==
    /\ UNCHANGED <<scoreVars, samplerVars, postVars, splitVars>>
    /\ upc = "call" /\ u_fn = "get_autocast"
    /\ upc' = "returned"
    /\ u_out' = get_autocast(precision)
    /\ UNCHANGED <<utilInputVars, u_err, u_work, padding_side, e_pos>>

\* encode_dataset, lines 97-99: a cache file that exists is loaded and
\* returned; nothing else is looked at
EncodeCache ==
    /\ UNCHANGED <<scoreVars, samplerVars, postVars, splitVars>>
    /\ upc = "call" /\ u_fn = "encode_dataset"
    /\ IF cache_exists
       THEN /\ u_work' = Append(u_work, "cache_read")
            /\ upc' = "returned"
            /\ u_out' = "cached_map"
       ELSE /\ upc' = "init_flamingo"
            /\ UNCHANGED <<u_work, u_out>>
    /\ UNCHANGED <<utilInputVars, u_err, padding_side, e_pos>>

\* encode_dataset, lines 102-115: init_flamingo builds the model and loads
\* the checkpoint, then calls cast_type and get_autocast; the padding side
\* follows pool_method
EncodeInitFlamingo ==
    /\ UNCHANGED <<scoreVars, samplerVars, postVars, splitVars>>
    /\ upc = "init_flamingo"
    /\ u_work' = Append(u_work, "model_load")
    /\ LET r == cast_type(precision) IN
          IF r.ok
          THEN /\ upc' = "loop"
               /\ u_out' = get_autocast(precision)
               /\ padding_side' = padding_side_of(pool_method)
               /\ UNCHANGED u_err
          ELSE /\ upc' = "raised"
               /\ u_err' = r.val
               /\ UNCHANGED <<u_out, padding_side>>
    /\ UNCHANGED <<utilInputVars, e_pos>>

\* encode_dataset, lines 119-151: one chunk is tokenized and run through the
\* model, then pooled
EncodeBatch ==
    /\ UNCHANGED <<scoreVars, samplerVars, postVars, splitVars>>
    /\ upc = "loop" /\ e_pos < coco_dataset_len
    /\ u_work' = Append(u_work, "forward")
    /\ LET r == pooled(pool_method) IN
          IF r.ok
          THEN /\ e_pos' = Min(e_pos + e_batch_size, coco_dataset_len)
               /\ UNCHANGED <<upc, u_err>>
          ELSE /\ upc' = "raised"
               /\ u_err' = r.val
               /\ UNCHANGED e_pos
    /\ UNCHANGED <<utilInputVars, padding_side, u_out>>

\* encode_dataset, lines 154-155: the map is saved and returned
EncodeSave ==
    /\ UNCHANGED <<scoreVars, samplerVars, postVars, splitVars>>
    /\ upc = "loop" /\ e_pos >= coco_dataset_len
    /\ u_work' = Append(u_work, "cache_write")
    /\ upc' = "returned"
    /\ u_out' = "embeddings_map"
    /\ UNCHANGED <<utilInputVars, u_err, padding_side, e_pos>>

UtilNext ==
    \/ CastTypeCall
    \/ GetAutocastCall
    \/ EncodeCache
    \/ EncodeInitFlamingo
    \/ EncodeBatch
    \/ EncodeSave

(* ------------------------------ data_split ---------------------------- *)
MaxQueryId == 3
MaxIdList == 2

\* the keys of generated_data, in the order the dict yields them
DataKeys == <<"d0", "d1">>

\* an id sequence: the ids of the demonstrations, then the query id
IdSeqs == { <<0, q>> : q \in 1..MaxQueryId }
IdLists == UNION { [1..n -> IdSeqs] : n \in 0..MaxIdList }

\* train_ratio as a fraction; below 0 and above 1 are accepted as well
TrainRatios == { <<0 - 1, 2>>, <<1, 3>>, <<1, 2>>, <<1, 1>>, <<3, 2>> }

\* for d in generated_data for v in generated_data[d]['id_list']
id_seqs_of(gd) == Concat([k \in 1..Len(DataKeys) |-> gd[DataKeys[k]]])

test_dataset_id_set(gd) ==
    { Last(id_seqs_of(gd)[k]) : k \in 1..Len(id_seqs_of(gd)) }

\* int(train_ratio * test_dataset_len): int() drops the fraction, towards 0
train_data_len(gd, ratio) ==
    LET p == ratio[1] * Cardinality(test_dataset_id_set(gd)) IN
    IF p >= 0 THEN p \div ratio[2] ELSE 0 - ((0 - p) \div ratio[2])

\* seq[:k]: a negative k counts from the end, a k past the end takes all
SliceTo(seq, k) ==
    IF k >= 0 THEN SubSeq(seq, 1, Min(k, Len(seq)))
    ELSE SubSeq(seq, 1, Len(seq) + k)

train_idx_set_FromTheEnd(gd, ratio) ==
    LET srt == Sorted(test_dataset_id_set(gd))
        kept == SliceTo(srt, train_data_len(gd, ratio))
    IN { srt[Len(srt) + 1 - k] : k \in 1..Len(kept) }

\* set(sorted(list(test_dataset_id_set))[:train_data_len])
train_idx_set(gd, ratio) ==
    LET kept == SliceTo(Sorted(test_dataset_id_set(gd)),
                        train_data_len(gd, ratio))
    IN { kept[k] : k \in 1..Len(kept) }

val_idx_set(gd, ratio) == test_dataset_id_set(gd) \ train_idx_set(gd, ratio)

\* int(i[-1]) in S: an int is never equal to a str of the set
int_id_in(v, S) == id_type = "int" /\ Last(v) \in S

SplitInit ==
    /\ generated_data \in [{DataKeys[k] : k \in 1..Len(DataKeys)} -> IdLists]
    /\ id_type \in {"int", "str"}
    /\ train_ratio \in TrainRatios
    /\ dpc = "loop"
    /\ d_pos = 0
    /\ train_data_list = <<>>
    /\ val_data_list = <<>>
    /\ d_err = "none"

SplitIdle ==
    /\ generated_data = [d \in {DataKeys[k] : k \in 1..Len(DataKeys)} |-> <<>>]
    /\ id_type = "int"
    /\ train_ratio = <<1, 1>>
    /\ dpc = "idle"
    /\ d_pos = 0
    /\ train_data_list = <<>>
    /\ val_data_list = <<>>
    /\ d_err = "none"

\* one turn of the inner loop: the id sequence goes to the train list or to
\* the val list by its query id, or the call raises
SplitPlace ==
    /\ UNCHANGED <<scoreVars, samplerVars, postVars, utilVars>>
    /\ dpc = "loop" /\ d_pos < Len(id_seqs_of(generated_data))
    /\ LET i == id_seqs_of(generated_data)[d_pos + 1] IN
          IF int_id_in(i, train_idx_set(generated_data, train_ratio))
          THEN /\ train_data_list' = Append(train_data_list, i)
               /\ d_pos' = d_pos + 1
               /\ UNCHANGED <<val_data_list, dpc, d_err>>
          ELSE IF int_id_in(i, val_idx_set(generated_data, train_ratio))
          THEN /\ val_data_list' = Append(val_data_list, i)
               /\ d_pos' = d_pos + 1
               /\ UNCHANGED <<train_data_list, dpc, d_err>>
          ELSE /\ dpc' = "raised"
               /\ d_err' = "ValueError"
               /\ UNCHANGED <<train_data_list, val_data_list, d_pos>>
    /\ UNCHANGED <<generated_data, id_type, train_ratio>>

\* return train_data_list, val_data_list
SplitReturn ==
    /\ UNCHANGED <<scoreVars, samplerVars, postVars, utilVars>>
    /\ dpc = "loop" /\ d_pos = Len(id_seqs_of(generated_data))
    /\ dpc' = "returned"
    /\ UNCHANGED <<generated_data, id_type, train_ratio, d_pos,
                   train_data_list, val_data_list, d_err>>

SplitNext ==
    \/ SplitPlace
    \/ SplitReturn

(* --------------------------- specifications --------------------------- *)
\* a call of get_info_score or get_cider_score
Init == ScoreInit /\ SamplerIdle /\ PostIdle /\ UtilIdle /\ SplitIdle
Spec == Init /\ [][Next]_vars

\* a call of RandSampler.sample.  The draws are random: a draw that has
\* positive probability at every turn of the loop is eventually made.
SamplerSpecInit == SamplerInit /\ ScoreIdle /\ PostIdle /\ UtilIdle /\ SplitIdle
SamplerSpec ==
    /\ SamplerSpecInit
    /\ [][SamplerNext]_vars
    /\ WF_vars(SamplerNext)
    /\ WF_vars(SampleRedrawClean)

\* a call of caption_postprocess or vqa_postprocess
PostSpecInit == PostInit /\ ScoreIdle /\ SamplerIdle /\ UtilIdle /\ SplitIdle
PostNext == PostCall
PostSpec == PostSpecInit /\ [][PostNext]_vars

\* a call of cast_type, get_autocast or encode_dataset
UtilSpecInit == UtilInit /\ ScoreIdle /\ SamplerIdle /\ PostIdle /\ SplitIdle
UtilSpec == UtilSpecInit /\ [][UtilNext]_vars

\* a call of data_split
SplitSpecInit == SplitInit /\ ScoreIdle /\ SamplerIdle /\ PostIdle /\ UtilIdle
SplitSpec == SplitSpecInit /\ [][SplitNext]_vars

(* ------------------------------ claims -------------------------------- *)
ValidOrder == construct_order \in {"left", "right"}
Ended == pc \in {"returned", "raised"}
NumCand == Cardinality(DOMAIN candidate_set)
Query == Last(choosed_icd_seq_list)

\* S with c inserted: at the front for 'left', just before the query for 'right'
Inserted(c) ==
    LET n == Len(choosed_icd_seq_list)
    IN IF construct_order = "left"
       THEN [i \in 1..(n + 1) |-> IF i = 1 THEN c ELSE choosed_icd_seq_list[i - 1]]
       ELSE [i \in 1..(n + 1) |->
                IF i < n THEN choosed_icd_seq_list[i]
                ELSE IF i = n THEN c ELSE Query]

\* the i-th smallest candidate key: the key with exactly i-1 keys below it
KeyAt(i) ==
    CHOOSE k \in DOMAIN candidate_set :
        Cardinality({ j \in DOMAIN candidate_set : j < k }) = i - 1

\* P(answer | seq) as the model interface gives it
ProbOf(seq) ==
    get_cond_prob(seq, get_input_token_num(concat_prompt(ButLast(seq)) \o query_mask_part))

\* C1: every call of get_info_score with a split token and a valid order, for
\* every candidate set (the empty one included), chosen sequence and batch
\* size, returns a vector of length |C| whose i-th entry is the score of the
\* i-th smallest candidate key.
C1_InfoScoreVectorForEveryCandidateSet ==
    (fn = "get_info_score" /\ split_token # NoSplit /\ ValidOrder /\ Ended)
    => /\ pc = "returned"
       /\ Len(result) = NumCand
       /\ \A i \in 1..NumCand :
            result[i] = ProbOf(Inserted(candidate_set[KeyAt(i)]))
                        - ProbOf(choosed_icd_seq_list)

\* C2: when get_info_score returns, the entry of every candidate c is
\* P(answer | S with c inserted) - P(answer | S), and the baseline P(answer | S)
\* is one value, the same in every batch of the call.
C2_InfoScoreIsProbabilityDelta ==
    fn = "get_info_score"
    => /\ pc \in {"loop", "returned"} => cond_prob = ProbOf(choosed_icd_seq_list)
       /\ pc = "returned" =>
            \A i \in 1..NumCand :
                /\ i <= Len(result)
                /\ result[i] = ProbOf(Inserted(candidate_set[KeyAt(i)]))
                               - ProbOf(choosed_icd_seq_list)

C2_Witness ==
    /\ fn = "get_info_score" /\ pc = "returned"
    /\ construct_order = "right" /\ Len(choosed_icd_seq_list) = 2
    /\ batch_size = 2 /\ Len(result) = 3
    /\ \E i \in 1..3 : result[i] # 0

\* C3: in get_info_score and get_cider_score, for 'left' and for 'right', every
\* sequence handed to transfer_prompts (the baseline and every augmented
\* sequence) ends with the query, the last element of the chosen sequence.
C3_QueryIsLastOfEveryRenderedSequence ==
    \A seq \in rendered : seq # <<>> /\ Last(seq) = Query

C3_Witness ==
    /\ fn = "get_cider_score" /\ construct_order = "right" /\ pc = "returned"
    /\ Len(choosed_icd_seq_list) = 2
    /\ Cardinality(rendered) = 4

\* what get_cider_score is to return for the i-th smallest key: the CIDEr of
\* the candidate's own post-processed prediction, minus the baseline's CIDEr
OwnCaption(c) == caption_postprocess(generate(Inserted(c)), model_name)
CandidateImages == { candidate_set[k].image_id : k \in DOMAIN candidate_set }
OwnCiderScore(c) ==
    CiderVal(c.image_id, OwnCaption(c), CandidateImages)
    - CiderVal(Query.image_id, generate(choosed_icd_seq_list), {Query.image_id})

\* C4: when get_cider_score returns, for every candidate set with unique idx
\* keys (candidates may share an image_id), the entry at the position of c in
\* ascending key order is the CIDEr of the prediction generated from the
\* sequence augmented with c, minus origin_cider_score.
C4_CiderScoreIsOwnPrediction ==
    (fn = "get_cider_score" /\ pc = "returned")
    => /\ Len(result) = NumCand
       /\ \A i \in 1..NumCand : result[i] = OwnCiderScore(candidate_set[KeyAt(i)])

\* the score vector of a call, from the whole candidate set at once: no batch
ExpectedPreds ==
    [i \in 1..NumCand |->
        [image_id |-> candidate_set[KeyAt(i)].image_id,
         caption |-> OwnCaption(candidate_set[KeyAt(i)])]]
ExpectedCider ==
    LET info == compute_cider(ExpectedPreds, metric_used.dup, metric_used.strict).info
    IN [i \in 1..NumCand |->
           info[candidate_set[KeyAt(i)].image_id]
           - CiderVal(Query.image_id, generate(choosed_icd_seq_list), {Query.image_id})]

\* C5: for a fixed chosen sequence, candidate set, model interface and metric,
\* the vector get_cider_score returns does not depend on the batch size: it is
\* the vector computed from the whole candidate set in one pass.
C5_CiderScoreIndependentOfBatchSize ==
    (fn = "get_cider_score" /\ pc = "returned") => result = ExpectedCider

C5_Witness ==
    /\ fn = "get_cider_score" /\ pc = "returned"
    /\ batch_size = 2 /\ Len(result) = 3
    /\ \E i, j \in 1..3 : result[i] # result[j]

NumBatches == (NumCand + batch_size - 1) \div batch_size

\* C6: in a call of get_cider_score, whatever the batch size and the number
\* of candidates, compute_cider is invoked once for the baseline prediction and
\* once for the candidates, never more; the candidates' invocation comes after
\* the generation of every batch and is given the predictions of all
\* candidates at once.
C6_CiderComputedOnceAfterAllBatches ==
    fn = "get_cider_score"
    => /\ Len(cider_calls) <= 2
       /\ pc = "start" => cider_calls = <<>>
       /\ pc = "loop" => Len(cider_calls) = 1
       /\ pc = "returned" => Len(cider_calls) = 2
       /\ Len(cider_calls) >= 1 =>
            /\ Len(cider_calls[1]) = 1
            /\ cider_calls[1][1].image_id = Query.image_id
       /\ Len(cider_calls) = 2 =>
            /\ pos = NumCand
            /\ gen_calls = 1 + NumBatches
            /\ Len(cider_calls[2]) = NumCand
            /\ \A i \in 1..NumCand :
                 cider_calls[2][i].image_id = candidate_set[KeyAt(i)].image_id

C6_Witness ==
    /\ fn = "get_cider_score" /\ pc = "returned"
    /\ batch_size = 1 /\ NumCand = 3 /\ gen_calls = 4
    /\ Len(cider_calls) = 2 /\ Len(cider_calls[2]) = 3

\* C7: when RandSampler.sample returns, the list stored under every anchor a of
\* anchor_set does not contain a, has exactly candidate_num elements, pairwise
\* distinct, each in [0, len(train_ds)).
C7_SampledListsExcludeAnchor ==
    spc = "returned"
    => \A j \in 1..Len(anchor_set) :
         LET a == anchor_set[j]
         IN /\ a \in DOMAIN candidate_set_idx
            /\ ~Contains(candidate_set_idx[a], a)
            /\ Len(candidate_set_idx[a]) = candidate_num
            /\ Injective(candidate_set_idx[a])
            /\ \A i \in 1..Len(candidate_set_idx[a]) :
                 candidate_set_idx[a][i] \in 0..(train_len - 1)

C7_Witness ==
    /\ spc = "returned"
    /\ Len(anchor_set) = 2 /\ anchor_set[1] # anchor_set[2]
    /\ \A j \in 1..2 : anchor_set[j] < train_len
    /\ candidate_num = 2

\* a call with at least one anchor, every anchor inside [0, len(train_ds))
AnchorsInRange ==
    /\ anchor_set # <<>>
    /\ \A j \in 1..Len(anchor_set) : anchor_set[j] \in 0..(train_len - 1)

\* C8 as stated: for an anchor inside [0, len(train_ds)), sample never returns
\* when candidate_num >= len(train_ds) - 1.
C8_NeverReturnsFromLenMinusOne ==
    (AnchorsInRange /\ candidate_num >= train_len - 1) => spc # "returned"

\* C8 as amended: for an anchor inside [0, len(train_ds)), sample never returns
\* when candidate_num >= len(train_ds) (at candidate_num = len(train_ds) the
\* rejection loop runs forever, above it random.sample raises), and it
\* eventually returns under fair draws when candidate_num <= len(train_ds) - 1.
C8_ReturnsIffBelowLen ==
    /\ []((AnchorsInRange /\ candidate_num = train_len) => spc \in {"for", "while"})
    /\ []((AnchorsInRange /\ candidate_num > train_len) => spc # "returned")
    /\ []((AnchorsInRange /\ candidate_num < train_len) => spc # "raised")
    /\ (AnchorsInRange /\ candidate_num # train_len) ~> (spc \in {"returned", "raised"})

C8_Witness ==
    /\ AnchorsInRange /\ train_len >= 2 /\ candidate_num = train_len - 1
    /\ Len(anchor_set) = 2
    /\ spc = "returned"

\* C9: every call of get_info_score or get_cider_score whose construct_order
\* is neither 'left' nor 'right' ends in the configuration error and returns no
\* score vector, for every candidate set (the empty one included) and every
\* batch size.
C9_InvalidOrderEndsInConfigurationError ==
    (~ValidOrder /\ Ended /\ (fn = "get_info_score" => split_token # NoSplit))
    => (pc = "raised" /\ err = "ValueError")

\* C10: caption_postprocess and vqa_postprocess, called with a model_name that
\* contains neither 'flamingo' nor 'idefics', signal an error instead of
\* returning a value.
C10_UnsupportedModelNameSignalsError ==
    (~InName("flamingo", p_model_name) /\ ~InName("idefics", p_model_name))
    => ppc # "returned"

\* the family caption_postprocess picks, and its marker
IsFlamingo == InName("flamingo", p_model_name)
IsIdefics == ~IsFlamingo /\ InName("idefics", p_model_name)
FamilyMarker == IF IsFlamingo THEN OutputMarker ELSE CaptionMarker

\* pre is the part of text before the first occurrence of marker (all of
\* text when marker does not occur)
IsPartBeforeFirst(pre, text, marker) ==
    \E k \in 0..Len(text) :
        /\ pre = SubSeq(text, 1, k)
        /\ \A i \in 1..k : ~OccursAt(text, marker, i)
        /\ k = Len(text) \/ OccursAt(text, marker, k + 1)

RECURSIVE Without(_, _)
\* s with every character of chars left out
Without(s, chars) ==
    IF s = <<>> THEN <<>>
    ELSE IF Head(s) \in chars THEN Without(Tail(s), chars)
    ELSE <<Head(s)>> \o Without(Tail(s), chars)

OccursIn(text, marker) == \E i \in 1..Len(text) : OccursAt(text, marker, i)

ExamplesHold ==
    /\ (p_text = ExampleDog /\ IsFlamingo) => p_out = <<"A", " ", "d", "o", "g", ".">>
    /\ (p_text = ExampleCat /\ IsIdefics) => p_out = <<"A", " ", "c", "a", "t", ".">>

CaptionReturned ==
    ppc = "returned" /\ p_fn = "caption_postprocess" /\ (IsFlamingo \/ IsIdefics)

\* C11 as stated: caption_postprocess returns the part of the text before the
\* first occurrence of the family's marker with every double quote removed;
\* the result contains neither the marker nor a double quote; the two
\* examples give 'A dog.' and 'A cat.'.
C11_PrefixWithoutQuotesAndMarker ==
    CaptionReturned
    => /\ \E pre \in { SubSeq(p_text, 1, k) : k \in 0..Len(p_text) } :
            /\ IsPartBeforeFirst(pre, p_text, FamilyMarker)
            /\ p_out = Without(pre, {"\""})
       /\ ~OccursIn(p_out, FamilyMarker)
       /\ ~Contains(p_out, "\"")
       /\ ExamplesHold

\* C11 as amended: caption_postprocess returns the part of the text before
\* the first occurrence of the family's marker with every double quote
\* removed and, for idefics, every newline removed too; the result contains no
\* double quote; the two examples give 'A dog.' and 'A cat.'.
C11_PrefixWithoutQuotes ==
    CaptionReturned
    => /\ \E pre \in { SubSeq(p_text, 1, k) : k \in 0..Len(p_text) } :
            /\ IsPartBeforeFirst(pre, p_text, FamilyMarker)
            /\ p_out = Without(pre, IF IsIdefics THEN {"\"", "\n"} ELSE {"\""})
       /\ ~Contains(p_out, "\"")
       /\ ExamplesHold

C11_Witness ==
    /\ CaptionReturned /\ IsIdefics
    /\ p_text = ExampleCat
    /\ p_out = <<"A", " ", "c", "a", "t", ".">>

\* C12: every call of get_info_score in which the split token is omitted (left
\* at its default, None), with a valid order and a non-empty candidate set,
\* returns a score vector with one entry per candidate, as a call with a
\* split token does.
C12_InfoScoreReturnsWithDefaultSplitToken ==
    (fn = "get_info_score" /\ split_token = NoSplit /\ ValidOrder
        /\ NumCand > 0 /\ Ended)
    => (pc = "returned" /\ Len(result) = NumCand)

\* C13: no step of a call of get_info_score or get_cider_score changes the
\* chosen sequence passed in (its length, elements, order) or the candidate
\* set (its keys and examples), whether the call goes on to return or to fail.
C13_CallLeavesInputsUnchanged ==
    [][/\ choosed_icd_seq_list' = choosed_icd_seq_list
       /\ candidate_set' = candidate_set]_vars

C13_Witness ==
    /\ fn = "get_cider_score" /\ pc = "returned"
    /\ Len(choosed_icd_seq_list) = 2 /\ NumCand = 3 /\ batch_size = 2
    /\ Len(output_dict) = 3

\* C14: cast_type, get_autocast and encode_dataset, handed a precision or
\* pool-method string outside the accepted values, do no work at all (no
\* cache read, no model loading, no forward pass) and end by raising an
\* error that lists the accepted values; none falls back to a default.
PrecisionMalformed == precision \notin precision_list
PoolMethodMalformed == pool_method \notin {"first", "last", "mean"}
UtilMalformed ==
    \/ u_fn \in {"cast_type", "get_autocast", "encode_dataset"}
        /\ PrecisionMalformed
    \/ u_fn = "encode_dataset" /\ PoolMethodMalformed
UtilEnded == upc \in {"returned", "raised"}

C14_MalformedStringFailsFastWithListedValues ==
    UtilMalformed =>
        /\ u_work = <<>>
        /\ UtilEnded =>
            /\ upc = "raised"
            /\ u_err.type = "ValueError"
            /\ u_err.listed # {}

\* the id sequences and query ids of a list
SeqsOf(l) == { l[k] : k \in 1..Len(l) }
QueryIdsOf(l) == { Last(l[k]) : k \in 1..Len(l) }
DistinctQueryIds == QueryIdsOf(id_seqs_of(generated_data))

\* the k smallest of a set of ids: those with fewer than k ids below them
Smallest(S, k) == { q \in S : Cardinality({ r \in S : r < q }) < k }

\* floor(train_ratio * n)
FloorOfRatio ==
    (train_ratio[1] * Cardinality(DistinctQueryIds)) \div train_ratio[2]

EveryIdSeqInExactlyOneList ==
    \A v \in SeqsOf(id_seqs_of(generated_data)) :
        (v \in SeqsOf(train_data_list)) # (v \in SeqsOf(val_data_list))

NoQueryIdInBothLists ==
    QueryIdsOf(train_data_list) \cap QueryIdsOf(val_data_list) = {}

\* C15 as stated: whenever data_split returns, every id sequence is in
\* exactly one of the two lists, no query id is in both, and the train query
\* ids are exactly the floor(train_ratio * n) smallest of the n distinct ones.
C15_TrainIsFloorSmallest ==
    dpc = "returned" =>
        /\ EveryIdSeqInExactlyOneList
        /\ NoQueryIdInBothLists
        /\ QueryIdsOf(train_data_list) = Smallest(DistinctQueryIds, FloorOfRatio)

\* how many ids the train side holds for a negative train_ratio: int() rounds
\* towards zero to -m; for m = 0 the slice is empty, otherwise it drops the
\* m largest ids
AllButLargest ==
    LET n == Cardinality(DistinctQueryIds)
        m == ((0 - train_ratio[1]) * n) \div train_ratio[2]
    IN IF m = 0 \/ m > n THEN 0 ELSE n - m

\* C15, amended: whenever data_split returns, every id sequence is in exactly
\* one of the two lists and no query id is in both; for train_ratio >= 0 the
\* train query ids are exactly the floor(train_ratio * n) smallest of the n
\* distinct ones (all of them once that is n or more); for a negative
\* train_ratio with m = int(-train_ratio * n) they are none when m = 0 and
\* otherwise all but the m largest.
C15_TrainIsSlicedSmallest ==
    dpc = "returned" =>
        /\ EveryIdSeqInExactlyOneList
        /\ NoQueryIdInBothLists
        /\ train_ratio[1] >= 0 =>
             QueryIdsOf(train_data_list) = Smallest(DistinctQueryIds, FloorOfRatio)
        /\ train_ratio[1] < 0 =>
             QueryIdsOf(train_data_list) = Smallest(DistinctQueryIds, AllButLargest)

C15_Witness ==
    /\ dpc = "returned"
    /\ train_ratio = <<1, 2>>
    /\ Cardinality(DistinctQueryIds) = 3
    /\ Len(train_data_list) = 2 /\ Len(val_data_list) = 2
    /\ QueryIdsOf(train_data_list) = {1}

====
